---- MODULE Spec2Model ----
(***************************************************************************)
(* Model of src/app.py: the Flask route finder.  One POST /route request   *)
(* is a process that walks through the body of route(): two geocoder       *)
(* calls, the None check, the road-network load, two nearest-node look-ups,*)
(* nx.astar_path (one action per iteration of its main loop), path_weight, *)
(* the folium map, the os.path.exists / os.makedirs / fig.save calls on    *)
(* the static folder (one step each) and the rendered                      *)
(* page.  The browser's fetch of the iframe named by the page is the last  *)
(* step.  An exception that route() does not catch ends the request with   *)
(* Flask's 500 response.                                                   *)
(*                                                                         *)
(* Units: a latitude or longitude is an integer number of 0.005 degree     *)
(* (so 0.01 degree is 2 and 1 degree is 200); a length is an integer       *)
(* number of metres.                                                       *)
(***************************************************************************)
EXTENDS Integers, Sequences, FiniteSets, TLC

VARIABLES
    map_data,       \* which road networks the map source can serve to graph_from_point
    clients,        \* the requests that are (or will be) posted
    pc,             \* per request: position in route()
    pointA, pointB, \* per request: the form fields
    locA, locB,     \* per request: results of smart_geocode
    G,              \* per request: the loaded graph
    orig_node, dest_node,
    search,         \* per request: locals of nx.astar_path (queue, enqueued, explored, c)
    route,          \* per request: the node list returned by astar_path
    route_length_m,
    m,              \* per request: the folium map (centre, polyline, markers)
    response,       \* per request: what route() returned (or Flask's 500 page)
    static_dir,     \* whether the directory 'static' exists (shared by all requests)
    static_file,    \* contents of static/route_map.html (shared by all requests)
    shown           \* per request: the map the browser loaded into the page's iframe

vars == <<map_data, static_dir, clients, pc, pointA, pointB, locA, locB, G, orig_node, dest_node,
          search, route, route_length_m, m, response, static_file, shown>>

\* ---------------------------------------------------------------- bounds
NumQueries == 2
MaxEdges == 2

Queries == 1..NumQueries

\* Python's None for object-valued names, and for node-valued ones (node ids
\* are strings here, a tuple cannot be compared with them).
None == <<>>
NoNode == "None"

\* ---------------------------------------------------------------- graphs
Nodes == {"A", "B", "C", "D"}
Lengths == {0, 50, 100, 300}
CoordVals == {0, 2, 200}

Min(S) == CHOOSE a \in S : \A b \in S : a <= b

\* A graph: node set, node attributes x (longitude) and y (latitude), and for
\* each connected ordered pair the set of 'length' attributes of its parallel
\* edges (a MultiDiGraph).
MkGraph(ns, ys, xs, es) == [nodes |-> ns, y |-> ys, x |-> xs, edges |-> es]

EmptyGraph == MkGraph({}, <<>>, <<>>, <<>>)

ScenarioY == [n \in Nodes |-> IF n \in {"C", "D"} THEN 200 ELSE 0]
ScenarioX == [n \in Nodes |-> IF n \in {"B", "C"} THEN 200 ELSE 0]

DiamondPairs == {<<"A", "B">>, <<"B", "C">>, <<"A", "D">>, <<"D", "C">>}

\* A(0,0) B(0,1) C(1,1) D(1,0); A->B 100, B->C 100, A->D 300, D->C 50.
Scenario ==
    MkGraph(Nodes, ScenarioY, ScenarioX,
            (<<"A", "B">> :> {100}) @@ (<<"B", "C">> :> {100}) @@
            (<<"A", "D">> :> {300}) @@ (<<"D", "C">> :> {50}))

\* The scenario's shape with every choice of lengths, alone, with a zero-length
\* edge back to A (a cycle), or with a second parallel edge from B to C.
DiamondExtras ==
    { <<>>, (<<"C", "A">> :> {0}), (<<"B", "C">> :> {50}) }

DiamondWorlds ==
    { MkGraph(Nodes, ScenarioY, ScenarioX,
              [p \in DiamondPairs \cup DOMAIN ex |->
                  (IF p \in DiamondPairs THEN {w[p]} ELSE {}) \cup
                  (IF p \in DOMAIN ex THEN ex[p] ELSE {})]) :
        w \in [DiamondPairs -> Lengths], ex \in DiamondExtras }

\* Every graph on A, B, C with at most MaxEdges edges (self-loops included).
SparseNodes == {"A", "B", "C"}

SparseWorlds ==
    UNION { { MkGraph(SparseNodes, [n \in SparseNodes |-> ScenarioY[n]],
                      [n \in SparseNodes |-> ScenarioX[n]],
                      [p \in E |-> {w[p]}]) : w \in [E -> Lengths] } :
            E \in { F \in SUBSET (SparseNodes \X SparseNodes) : Cardinality(F) <= MaxEdges } }

\* A -> B -> C -> A with every placement of the three nodes on the grid.
LayoutEdges == (<<"A", "B">> :> {100}) @@ (<<"B", "C">> :> {100}) @@ (<<"C", "A">> :> {50})

LayoutWorlds ==
    { MkGraph(SparseNodes, ys, xs, LayoutEdges) :
        ys \in [SparseNodes -> CoordVals], xs \in [SparseNodes -> CoordVals] }

Worlds == {EmptyGraph, Scenario} \cup DiamondWorlds \cup SparseWorlds \cup LayoutWorlds

\* The graphs graph_from_point can return: any network of the bounded family,
\* or only the scenario network.
LoaderResults(data) == IF data = "scenario" THEN {Scenario} ELSE Worlds

\* ---------------------------------------------------------------- geocoder
PlaceNames == {"UPM", "KLCC", "Atlantis"}

Location(lat, lon) == [latitude |-> lat, longitude |-> lon]

\* What Nominatim answers: (0.01, 0.01), (1, 1), or no match.
GeoDB(name) ==
    CASE name = "UPM" -> Location(2, 2)
      [] name = "KLCC" -> Location(200, 200)
      [] OTHER -> None

\* smart_geocode: the geocoder's answer, or None when the call raises.
smart_geocode(location_name, raises) ==
    IF raises THEN None ELSE GeoDB(location_name)

GeocodeMissingA(a, b) == a = None

\* not locA or not locB
GeocodeMissing(a, b) == a = None \/ b = None

\* ---------------------------------------------------------------- nearest node
\* Squared planar distance between node n and the point (X = longitude,
\* Y = latitude).  osmnx ranks by haversine distance; on the grid CoordVals
\* (within one degree of the equator) the two rank every pair of nodes alike,
\* except that some planar ties are not haversine ties.
Dist2(g, n, X, Y) ==
    (g.x[n] - X) * (g.x[n] - X) + (g.y[n] - Y) * (g.y[n] - Y)

FarthestOf(g, X, Y) ==
    { n \in g.nodes : \A k \in g.nodes : Dist2(g, n, X, Y) >= Dist2(g, k, X, Y) }

\* ox.distance.nearest_nodes(G, X, Y): the nodes the index may answer with.
\* Which of several equidistant nodes it answers with is left open.
nearest_nodes(g, X, Y) ==
    { n \in g.nodes : \A k \in g.nodes : Dist2(g, n, X, Y) <= Dist2(g, k, X, Y) }

\* ---------------------------------------------------------------- nx.astar_path
Succ(g, u) == { v \in g.nodes : <<u, v>> \in DOMAIN g.edges }

\* _weight_function(G, 'length') on a multigraph: the least length among the
\* parallel edges u -> v.
Weight(g, u, v) == Min(g.edges[<<u, v>>])

\* heuristic=None: the default heuristic is constantly 0.
Heuristic(u, v) == 0

Orders(S) ==
    { s \in [1..Cardinality(S) -> S] : \A i, j \in 1..Cardinality(S) : i # j => s[i] # s[j] }

Entry(priority, cnt, node, dist, parent) ==
    [priority |-> priority, cnt |-> cnt, node |-> node, dist |-> dist, parent |-> parent]

\* c = count(); queue = [(0, next(c), source, 0, None)]; enqueued = {}; explored = {}
AstarInit(source) ==
    [queue |-> {Entry(0, 0, source, 0, NoNode)}, c |-> 1,
     enqueued |-> <<>>, explored |-> <<>>]

HeapPopLast(queue) ==
    CHOOSE e \in queue : \A f \in queue : e.cnt >= f.cnt

\* heappop on tuples (priority, counter, ...): least priority, then least counter.
HeapPop(queue) ==
    CHOOSE e \in queue : \A f \in queue :
        e.priority < f.priority \/ (e.priority = f.priority /\ e.cnt <= f.cnt)

AlreadyQueuedLax(st, neighbor, ncost) ==
    neighbor \in DOMAIN st.enqueued /\ st.enqueued[neighbor].qcost < ncost

\* if neighbor in enqueued: qcost, h = enqueued[neighbor]; if qcost <= ncost: continue
AlreadyQueued(st, neighbor, ncost) ==
    neighbor \in DOMAIN st.enqueued /\ st.enqueued[neighbor].qcost <= ncost

\* The for-loop over G_succ[curnode].items(), in the adjacency order 'order'.
RECURSIVE Relax(_, _, _, _, _, _, _)
Relax(g, st, target, curnode, dist, order, i) ==
    IF i > Len(order) THEN st
    ELSE
        LET neighbor == order[i]
            ncost == dist + Weight(g, curnode, neighbor)
            h == IF neighbor \in DOMAIN st.enqueued
                 THEN st.enqueued[neighbor].h ELSE Heuristic(neighbor, target)
            st2 == IF AlreadyQueued(st, neighbor, ncost) THEN st
                   ELSE [st EXCEPT
                           !.enqueued = (neighbor :> [qcost |-> ncost, h |-> h]) @@ @,
                           !.queue = @ \cup {Entry(ncost + h, st.c, neighbor, ncost, curnode)},
                           !.c = @ + 1]
        IN Relax(g, st2, target, curnode, dist, order, i + 1)

ReachedTargetLater(e, target) == e.node = target /\ e.parent # NoNode

\* if curnode == target
ReachedTarget(e, target) == e.node = target

\* Pops that are dropped: the start node popped again, or an entry made stale
\* by a cheaper one.
Stale(st, e) ==
    /\ e.node \in DOMAIN st.explored
    /\ \/ st.explored[e.node] = NoNode
       \/ st.enqueued[e.node].qcost < e.dist

\* explored[curnode] = parent, then the for-loop.
Expand(g, st, target, e, order) ==
    Relax(g, [st EXCEPT !.queue = @ \ {e}, !.explored = (e.node :> e.parent) @@ @],
          target, e.node, e.dist, order, 1)

\* path = [curnode]; node = parent; while node is not None: ...; path.reverse()
RECURSIVE Backtrack(_, _)
Backtrack(explored, node) ==
    IF node = NoNode THEN <<>> ELSE Append(Backtrack(explored, explored[node]), node)

ReconstructPathUnreversed(st, e) ==
    LET path == Append(Backtrack(st.explored, e.parent), e.node)
    IN [i \in 1..Len(path) |-> path[Len(path) + 1 - i]]

ReconstructPath(st, e) == Append(Backtrack(st.explored, e.parent), e.node)

\* ---------------------------------------------------------------- nx.path_weight
\* nx.is_path: every consecutive pair is joined by an edge.
is_path(g, path) ==
    /\ \A i \in 1..Len(path) : path[i] \in g.nodes
    /\ \A i \in 1..(Len(path) - 1) : path[i + 1] \in Succ(g, path[i])

RECURSIVE SumWeights(_, _, _)
SumWeights(g, path, i) ==
    IF i >= Len(path) THEN 0
    ELSE Weight(g, path[i], path[i + 1]) + SumWeights(g, path, i + 1)

\* cost += min(v['length'] for v in G._adj[node][nbr].values()), for a path
\* that is_path accepts.
path_weight(g, path) == SumWeights(g, path, 1)

\* ---------------------------------------------------------------- the map
RouteCoordsSwapped(g, rt) == [i \in 1..Len(rt) |-> <<g.x[rt[i]], g.y[rt[i]]>>]

\* route_coords = [(G.nodes[n]['y'], G.nodes[n]['x']) for n in route]
RouteCoords(g, rt) == [i \in 1..Len(rt) |-> <<g.y[rt[i]], g.x[rt[i]]>>]

\* Map(location=[center_lat, center_lon]) with the PolyLine and the two Markers.
\* Every latitude and longitude the geocoder answers is even, so the halving
\* is exact.
FoliumMap(a, b, pa, pb, coords) ==
    [location |-> <<(a.latitude + b.latitude) \div 2, (a.longitude + b.longitude) \div 2>>,
     polyline |-> coords,
     markers |-> << [at |-> <<a.latitude, a.longitude>>, popup |-> <<"Start", pa>>],
                    [at |-> <<b.latitude, b.longitude>>, popup |-> <<"End", pb>>] >>]

\* round(route_length_m / 1000, 2), in hundredths of a kilometre; every length
\* is a multiple of 10 m, so the rounding is exact.
DistanceKm100(length_m) == length_m \div 10

\* ---------------------------------------------------------------- responses
GeocodeFailedPage ==
    [kind |-> "message",
     text |-> "Could not find the entered location. Please check spelling or provide a more complete name."]

\* Flask's answer to an exception that route() lets escape.
ServerError(exc) == [kind |-> "error500", text |-> exc]

RoutePage(pa, pb, length_m) ==
    [kind |-> "route", pointA |-> pa, pointB |-> pb,
     distance_km |-> DistanceKm100(length_m), map_filename |-> "static/route_map.html"]

\* ---------------------------------------------------------------- route()
Unset == [q \in Queries |-> None]

InitCommon ==
    /\ pc = [q \in Queries |-> "idle"]
    /\ pointA = Unset /\ pointB = Unset
    /\ locA = Unset /\ locB = Unset
    /\ G = Unset
    /\ orig_node = [q \in Queries |-> NoNode]
    /\ dest_node = [q \in Queries |-> NoNode]
    /\ search = Unset
    /\ route = Unset
    /\ route_length_m = [q \in Queries |-> -1]    \* not assigned yet
    /\ m = Unset
    /\ response = Unset
    /\ shown = Unset
    /\ static_file = None
    /\ static_dir \in BOOLEAN     \* a fresh checkout has no 'static' folder

\* One request against any road network of the bounded family.
Init ==
    /\ map_data = "any"
    /\ clients = {1}
    /\ InitCommon

\* pointA = request.form['pointA']; pointB = request.form['pointB']
Submit(q) ==
    /\ q \in clients
    /\ pc[q] = "idle"
    /\ \E a \in PlaceNames, b \in PlaceNames :
          /\ pointA' = [pointA EXCEPT ![q] = a]
          /\ pointB' = [pointB EXCEPT ![q] = b]
    /\ pc' = [pc EXCEPT ![q] = "geocodeA"]
    /\ UNCHANGED <<map_data, static_dir, clients, locA, locB, G, orig_node, dest_node, search, route,
                   route_length_m, m, response, static_file, shown>>

\* locA = smart_geocode(pointA)
GeocodeA(q) ==
    /\ pc[q] = "geocodeA"
    /\ \E raises \in BOOLEAN :
          locA' = [locA EXCEPT ![q] = smart_geocode(pointA[q], raises)]
    /\ pc' = [pc EXCEPT ![q] = "geocodeB"]
    /\ UNCHANGED <<map_data, static_dir, clients, pointA, pointB, locB, G, orig_node, dest_node, search,
                   route, route_length_m, m, response, static_file, shown>>

\* locB = smart_geocode(pointB)
GeocodeB(q) ==
    /\ pc[q] = "geocodeB"
    /\ \E raises \in BOOLEAN :
          locB' = [locB EXCEPT ![q] = smart_geocode(pointB[q], raises)]
    /\ pc' = [pc EXCEPT ![q] = "check"]
    /\ UNCHANGED <<map_data, static_dir, clients, pointA, pointB, locA, G, orig_node, dest_node, search,
                   route, route_length_m, m, response, static_file, shown>>

\* if not locA or not locB: return the "Could not find" page
CheckLocations(q) ==
    /\ pc[q] = "check"
    /\ IF GeocodeMissing(locA[q], locB[q])
       THEN /\ response' = [response EXCEPT ![q] = GeocodeFailedPage]
            /\ pc' = [pc EXCEPT ![q] = "done"]
       ELSE /\ pc' = [pc EXCEPT ![q] = "load"]
            /\ UNCHANGED response
    /\ UNCHANGED <<map_data, static_dir, clients, pointA, pointB, locA, locB, G, orig_node, dest_node,
                   search, route, route_length_m, m, static_file, shown>>

\* G = ox.graph_from_point((3.1390, 101.6869), dist=30000, network_type="drive")
LoadGraph(q) ==
    /\ pc[q] = "load"
    /\ \E g \in LoaderResults(map_data) : G' = [G EXCEPT ![q] = g]
    /\ pc' = [pc EXCEPT ![q] = "nearestA"]
    /\ UNCHANGED <<map_data, static_dir, clients, pointA, pointB, locA, locB, orig_node, dest_node, search,
                   route, route_length_m, m, response, static_file, shown>>

\* orig_node = ox.distance.nearest_nodes(G, locA.longitude, locA.latitude);
\* on a graph without nodes the call raises ValueError, which route() lets escape.
NearestA(q) ==
    /\ pc[q] = "nearestA"
    /\ IF G[q].nodes = {}
       THEN /\ response' = [response EXCEPT ![q] = ServerError("ValueError")]
            /\ pc' = [pc EXCEPT ![q] = "done"]
            /\ UNCHANGED orig_node
       ELSE /\ \E n \in nearest_nodes(G[q], locA[q].longitude, locA[q].latitude) :
                  orig_node' = [orig_node EXCEPT ![q] = n]
            /\ pc' = [pc EXCEPT ![q] = "nearestB"]
            /\ UNCHANGED response
    /\ UNCHANGED <<map_data, static_dir, clients, pointA, pointB, locA, locB, G, dest_node, search, route,
                   route_length_m, m, static_file, shown>>

\* dest_node = ox.distance.nearest_nodes(G, locB.longitude, locB.latitude)
NearestB(q) ==
    /\ pc[q] = "nearestB"
    /\ \E n \in nearest_nodes(G[q], locB[q].longitude, locB[q].latitude) :
          dest_node' = [dest_node EXCEPT ![q] = n]
    /\ pc' = [pc EXCEPT ![q] = "astar"]
    /\ UNCHANGED <<map_data, static_dir, clients, pointA, pointB, locA, locB, G, orig_node, search, route,
                   route_length_m, m, response, static_file, shown>>

\* nx.astar_path(G, orig_node, dest_node, weight='length'), up to its main loop.
\* Both nodes come from G, so neither NodeNotFound is raised.
AstarStart(q) ==
    /\ pc[q] = "astar"
    /\ search' = [search EXCEPT ![q] = AstarInit(orig_node[q])]
    /\ pc' = [pc EXCEPT ![q] = "search"]
    /\ UNCHANGED <<map_data, static_dir, clients, pointA, pointB, locA, locB, G, orig_node, dest_node,
                   route, route_length_m, m, response, static_file, shown>>

\* One iteration of "while queue:", or the raise after the loop.
AstarIter(q) ==
    /\ pc[q] = "search"
    /\ IF search[q].queue = {}
       THEN \* raise nx.NetworkXNoPath: route() lets it escape
            /\ response' = [response EXCEPT ![q] = ServerError("NetworkXNoPath")]
            /\ pc' = [pc EXCEPT ![q] = "done"]
            /\ UNCHANGED <<search, route>>
       ELSE LET e == HeapPop(search[q].queue) IN
            IF ReachedTarget(e, dest_node[q])
            THEN \* the target is popped: return the path
                 /\ route' = [route EXCEPT ![q] = ReconstructPath(search[q], e)]
                 /\ search' = [search EXCEPT ![q].queue = @ \ {e}]
                 /\ pc' = [pc EXCEPT ![q] = "weight"]
                 /\ UNCHANGED response
            ELSE IF Stale(search[q], e)
            THEN \* continue
                 /\ search' = [search EXCEPT ![q].queue = @ \ {e}]
                 /\ UNCHANGED <<pc, route, response>>
            ELSE \* expand curnode; the adjacency order is the graph's
                 /\ \E order \in Orders(Succ(G[q], e.node)) :
                       search' = [search EXCEPT
                                    ![q] = Expand(G[q], search[q], dest_node[q], e, order)]
                 /\ UNCHANGED <<pc, route, response>>
    /\ UNCHANGED <<map_data, static_dir, clients, pointA, pointB, locA, locB, G, orig_node, dest_node,
                   route_length_m, m, static_file, shown>>

\* route_length_m = nx.path_weight(G, route, weight='length'); it raises
\* NetworkXNoPath when route is no path of G.
PathWeight(q) ==
    /\ pc[q] = "weight"
    /\ IF is_path(G[q], route[q])
       THEN /\ route_length_m' = [route_length_m EXCEPT ![q] = path_weight(G[q], route[q])]
            /\ pc' = [pc EXCEPT ![q] = "map"]
            /\ UNCHANGED response
       ELSE /\ response' = [response EXCEPT ![q] = ServerError("NetworkXNoPath")]
            /\ pc' = [pc EXCEPT ![q] = "done"]
            /\ UNCHANGED route_length_m
    /\ UNCHANGED <<map_data, static_dir, clients, pointA, pointB, locA, locB, G, orig_node, dest_node,
                   search, route, m, static_file, shown>>

\* The folium Map with the route's PolyLine and the start and end Markers.
BuildMap(q) ==
    /\ pc[q] = "map"
    /\ m' = [m EXCEPT ![q] = FoliumMap(locA[q], locB[q], pointA[q], pointB[q],
                                       RouteCoords(G[q], route[q]))]
    /\ pc' = [pc EXCEPT ![q] = "checkdir"]
    /\ UNCHANGED <<map_data, static_dir, clients, pointA, pointB, locA, locB, G, orig_node, dest_node,
                   search, route, route_length_m, response, static_file, shown>>

\* if not os.path.exists('static'):
CheckStaticDir(q) ==
    /\ pc[q] = "checkdir"
    /\ pc' = [pc EXCEPT ![q] = IF static_dir THEN "save" ELSE "makedirs"]
    /\ UNCHANGED <<map_data, static_dir, clients, pointA, pointB, locA, locB, G, orig_node, dest_node,
                   search, route, route_length_m, m, response, static_file, shown>>

\* os.makedirs('static'): it raises FileExistsError when another request made
\* the folder since the test, and route() lets that escape.
MakeStaticDir(q) ==
    /\ pc[q] = "makedirs"
    /\ IF static_dir
       THEN /\ response' = [response EXCEPT ![q] = ServerError("FileExistsError")]
            /\ pc' = [pc EXCEPT ![q] = "done"]
            /\ UNCHANGED static_dir
       ELSE /\ static_dir' = TRUE
            /\ pc' = [pc EXCEPT ![q] = "save"]
            /\ UNCHANGED response
    /\ UNCHANGED <<map_data, clients, pointA, pointB, locA, locB, G, orig_node, dest_node,
                   search, route, route_length_m, m, static_file, shown>>

\* fig.save('static/route_map.html')
SaveMap(q) ==
    /\ pc[q] = "save"
    /\ static_file' = m[q]
    /\ pc' = [pc EXCEPT ![q] = "render"]
    /\ UNCHANGED <<map_data, static_dir, clients, pointA, pointB, locA, locB, G, orig_node, dest_node,
                   search, route, route_length_m, m, response, shown>>

\* return render_template_string(... distance_km, map_filename ...)
Render(q) ==
    /\ pc[q] = "render"
    /\ response' = [response EXCEPT ![q] = RoutePage(pointA[q], pointB[q], route_length_m[q])]
    /\ pc' = [pc EXCEPT ![q] = "done"]
    /\ UNCHANGED <<map_data, static_dir, clients, pointA, pointB, locA, locB, G, orig_node, dest_node,
                   search, route, route_length_m, m, static_file, shown>>

\* The browser loads <iframe src="/static/route_map.html"> of the page it got.
FetchMap(q) ==
    /\ pc[q] = "done"
    /\ response[q].kind = "route"
    /\ shown' = [shown EXCEPT ![q] = static_file]
    /\ pc' = [pc EXCEPT ![q] = "viewed"]
    /\ UNCHANGED <<map_data, static_dir, clients, pointA, pointB, locA, locB, G, orig_node, dest_node,
                   search, route, route_length_m, m, response, static_file>>

Handler(q) ==
    \/ GeocodeA(q) \/ GeocodeB(q) \/ CheckLocations(q) \/ LoadGraph(q)
    \/ NearestA(q) \/ NearestB(q) \/ AstarStart(q) \/ AstarIter(q)
    \/ PathWeight(q) \/ BuildMap(q) \/ CheckStaticDir(q) \/ MakeStaticDir(q)
    \/ SaveMap(q) \/ Render(q)

Next == \E q \in Queries : Submit(q) \/ Handler(q) \/ FetchMap(q)

Spec == Init /\ [][Next]_vars

\* Two requests handled by the threaded server, against the scenario network.
InitConc ==
    /\ map_data = "scenario"
    /\ clients = {1, 2}
    /\ InitCommon

SpecConc == InitConc /\ [][Next]_vars

\* A request thread that is inside astar_path keeps running its loop.
FairSpec == Spec /\ \A q \in Queries : WF_vars(AstarIter(q))

\* ================================================================ properties
Searched(q) == search[q] # None
HasRoute(q) == route[q] # None
Answered(q) == pc[q] \in {"done", "viewed"}
HasLength(q) ==
    \/ pc[q] \in {"map", "checkdir", "makedirs", "save", "render"}
    \/ Answered(q) /\ response[q].kind = "route"
    \/ Answered(q) /\ response[q] = ServerError("FileExistsError")

\* Every node sequence of G of at most |nodes| nodes that is a path from o to d.
AllPaths(g, o, d) ==
    { p \in UNION { [1..k -> g.nodes] : k \in 1..Cardinality(g.nodes) } :
        p[1] = o /\ p[Len(p)] = d /\ is_path(g, p) }

At(g, n, loc) == g.y[n] = loc.latitude /\ g.x[n] = loc.longitude

\* C1: the length of the returned route is at most the length of every path of
\* the graph from the origin node to the destination node, and in the 4-node
\* scenario the route from A to C is [A, B, C] with length 200.
ShortestPathOptimal ==
    \A q \in Queries :
        HasLength(q) =>
            /\ \A p \in AllPaths(G[q], orig_node[q], dest_node[q]) :
                   route_length_m[q] <= path_weight(G[q], p)
            /\ (G[q] = Scenario /\ orig_node[q] = "A" /\ dest_node[q] = "C")
                   => (route[q] = <<"A", "B", "C">> /\ route_length_m[q] = 200)

ScenarioRouted ==
    \E q \in Queries :
        /\ HasLength(q) /\ G[q] = Scenario
        /\ orig_node[q] = "A" /\ dest_node[q] = "C"
        /\ route[q] = <<"A", "B", "C">> /\ route_length_m[q] = 200
        /\ <<"A", "D", "C">> \in AllPaths(G[q], "A", "C")

\* C2: a request whose destination node cannot be reached from its origin node
\* ends with a reported message, not with an unhandled failure; a request
\* whose destination can be reached ends with the route page.
NoPathFoundReported ==
    \A q \in Queries :
        (Answered(q) /\ Searched(q)) =>
            IF AllPaths(G[q], orig_node[q], dest_node[q]) = {}
            THEN response[q].kind = "message"
            ELSE response[q].kind = "route"

\* C3: when either geocoder call yields None the request ends with the
\* "Could not find" page and nothing else of route() has run: no graph is
\* loaded, no node is resolved, no search is started, no map is built or written.
GeocodeFailureIsClean ==
    \A q \in Queries :
        (pc[q] \notin {"idle", "geocodeA", "geocodeB", "check"}
            /\ (locA[q] = None \/ locB[q] = None)) =>
            /\ pc[q] = "done"
            /\ response[q] = GeocodeFailedPage
            /\ G[q] = None
            /\ orig_node[q] = NoNode /\ dest_node[q] = NoNode
            /\ search[q] = None /\ route[q] = None /\ ~HasLength(q)
            /\ m[q] = None /\ static_file = None /\ shown[q] = None

DestinationLookupRaised ==
    \E q \in Queries :
        /\ pc[q] = "done" /\ response[q] = GeocodeFailedPage
        /\ pointB[q] = "KLCC" /\ locB[q] = None /\ locA[q] # None

\* C4: a request whose loaded graph has no nodes ends with a reported message
\* (EmptyGraph), not with a failure raised from using the graph.
EmptyGraphRejected ==
    \A q \in Queries :
        (Answered(q) /\ G[q] # None /\ G[q].nodes = {}) => response[q].kind = "message"

\* C5: the map file a finished request's page points to holds that request's
\* own map, and the map its browser loads is that map.
RouteResultQueryScoped ==
    \A q \in Queries :
        (Answered(q) /\ response[q].kind = "route") =>
            /\ static_file = m[q]
            /\ pc[q] = "viewed" => shown[q] = m[q]

\* C6: when origin and destination are the same node the search returns the
\* one-node route [origin], and its length is 0.
SelfRouteIsTrivial ==
    \A q \in Queries :
        (Searched(q) /\ orig_node[q] = dest_node[q]) =>
            /\ HasRoute(q) => route[q] = <<orig_node[q]>>
            /\ HasLength(q) => route_length_m[q] = 0
            /\ Answered(q) =>
                  \/ response[q].kind = "route" /\ response[q].distance_km = 0
                  \/ response[q] = ServerError("FileExistsError")

SelfRouteOnLoop ==
    \E q \in Queries :
        /\ HasLength(q) /\ orig_node[q] = dest_node[q]
        /\ <<orig_node[q], orig_node[q]>> \in DOMAIN G[q].edges
        /\ G[q].edges[<<orig_node[q], orig_node[q]>>] = {0}
        /\ route[q] = <<orig_node[q]>>

\* C7: a returned route has at least one node, starts at the origin node, ends
\* at the destination node, every consecutive pair is an edge of the graph in
\* that direction, and path_weight does not fail on it.
RouteIsPath ==
    \A q \in Queries :
        HasRoute(q) =>
            /\ Len(route[q]) >= 1
            /\ route[q][1] = orig_node[q]
            /\ route[q][Len(route[q])] = dest_node[q]
            /\ \A i \in 1..(Len(route[q]) - 1) :
                   <<route[q][i], route[q][i + 1]>> \in DOMAIN G[q].edges
            /\ pc[q] # "weight" => HasLength(q)

LongRouteWeighed ==
    \E q \in Queries : HasLength(q) /\ Len(route[q]) = 3 /\ route_length_m[q] > 0

\* C8 as stated: the node resolved for a location is every node that sits at
\* that location, and (0.01, 0.01) resolves to A in the scenario.
NearestIsSelf ==
    \A q \in Queries :
        /\ orig_node[q] # NoNode =>
              /\ \A n \in G[q].nodes : At(G[q], n, locA[q]) => orig_node[q] = n
              /\ (G[q] = Scenario /\ locA[q] = Location(2, 2)) => orig_node[q] = "A"
        /\ dest_node[q] # NoNode =>
              \A n \in G[q].nodes : At(G[q], n, locB[q]) => dest_node[q] = n

\* C8 amended: the node resolved for a location where a node N sits is at N's
\* coordinate, and is N when no other node shares that coordinate; (0.01, 0.01)
\* resolves to A in the scenario.
NearestIsAtSelf ==
    \A q \in Queries :
        /\ orig_node[q] # NoNode =>
              /\ \A n \in G[q].nodes : At(G[q], n, locA[q]) =>
                    /\ At(G[q], orig_node[q], locA[q])
                    /\ (\A k \in G[q].nodes \ {n} : ~At(G[q], k, locA[q])) => orig_node[q] = n
              /\ (G[q] = Scenario /\ locA[q] = Location(2, 2)) => orig_node[q] = "A"
        /\ dest_node[q] # NoNode =>
              \A n \in G[q].nodes : At(G[q], n, locB[q]) =>
                    /\ At(G[q], dest_node[q], locB[q])
                    /\ (\A k \in G[q].nodes \ {n} : ~At(G[q], k, locB[q])) => dest_node[q] = n

NearestOfSharedCoordinate ==
    \E q \in Queries :
        /\ dest_node[q] = "C"
        /\ At(G[q], "C", locB[q]) /\ At(G[q], "B", locB[q]) /\ ~At(G[q], "A", locB[q])
        /\ orig_node[q] = "A" /\ At(G[q], "A", locA[q])

\* C9: the polyline of the map lists (latitude, longitude) of the route's nodes
\* in route order, one per node, and building it again from the route and the
\* graph gives the same sequence.
PolylineFollowsRoute ==
    \A q \in Queries :
        m[q] # None =>
            /\ Len(m[q].polyline) >= Len(route[q])
            /\ \A i \in 1..Len(route[q]) :
                   m[q].polyline[i] = <<G[q].y[route[q][i]], G[q].x[route[q][i]]>>
            /\ DOMAIN m[q].polyline = 1..Len(route[q])
            /\ RouteCoords(G[q], route[q]) = m[q].polyline

PolylineThroughB ==
    \E q \in Queries :
        /\ m[q] # None /\ G[q] = Scenario /\ route[q] = <<"A", "B", "C">>
        /\ m[q].polyline = << <<0, 0>>, <<0, 200>>, <<200, 200>> >>

\* The entries an iteration pushed, and whether it expanded the node it popped.
Pushed(q) == search'[q].queue \ search[q].queue
Expanded(q) ==
    search'[q].explored # search[q].explored \/ search'[q].c # search[q].c

\* The costs recorded for node n: the one kept in 'enqueued', and for the start
\* node the cost 0 it was first queued (and expanded) with.
RecordedCosts(q, n) ==
    (IF n \in DOMAIN search[q].enqueued THEN {search[q].enqueued[n].qcost} ELSE {})
        \cup (IF n = orig_node[q] THEN {0} ELSE {})

SearchStep(q) == pc[q] = "search" /\ search'[q] # search[q]

SearchEnds == \A q \in Queries : (pc[q] = "search") ~> (pc[q] \in {"weight", "done"})

\* C10 as stated: no iteration expands a node that was expanded before, no
\* iteration queues a node at a cost worse than or equal to a cost recorded for
\* it, and every search ends, with a route or with the no-path failure.
NeverRequeuesWorse ==
    /\ [][\A q \in Queries : SearchStep(q) =>
            /\ Expanded(q) => HeapPop(search[q].queue).node \notin DOMAIN search[q].explored
            /\ \A e \in Pushed(q) : \A r \in RecordedCosts(q, e.node) : e.dist < r]_vars
    /\ SearchEnds

\* C10 amended: no iteration expands a node that was expanded before, no
\* iteration queues a node at a cost worse than or equal to the cost kept for it
\* in 'enqueued' (the start node, whose cost 0 is not kept there, can be queued
\* again at a cost of 0 or more; that entry is dropped when popped), and
\* every search ends, with a route or with the no-path failure.
NeverRequeuesWorseButStart ==
    /\ [][\A q \in Queries : SearchStep(q) =>
            /\ Expanded(q) => HeapPop(search[q].queue).node \notin DOMAIN search[q].explored
            /\ \A e \in Pushed(q) :
                  e.node \in DOMAIN search[q].enqueued
                      => e.dist < search[q].enqueued[e.node].qcost
            /\ \A e \in search[q].queue \ search'[q].queue :
                  (e.node = orig_node[q] /\ e.parent # NoNode /\ e.node # dest_node[q])
                      => ~Expanded(q)]_vars
    /\ SearchEnds

StartQueuedAgain ==
    \E q \in Queries :
        /\ pc[q] = "search"
        /\ \E e \in search[q].queue :
              e.node = orig_node[q] /\ e.parent # NoNode /\ e.dist = 0
        /\ \E n \in DOMAIN search[q].enqueued : search[q].enqueued[n].qcost > 0
====
